---- MODULE Spec2Model ----
(***************************************************************************)
(* Subscription fan-out of src/main.py: the module-level registry          *)
(* `subscriptions`, the websocket handler that registers/unregisters a     *)
(* connection, and the ingestion handler that inserts a batch and pushes   *)
(* it to the subscribers of the first element's user_id.                   *)
(*                                                                         *)
(* All handlers are asyncio coroutines on one event loop: code between two *)
(* awaits runs atomically, so every action below is the code from one      *)
(* suspension point to the next.                                           *)
(***************************************************************************)
EXTENDS Integers, FiniteSets, Sequences, TLC

\* ---- bounds of the model ------------------------------------------------
NumConn  == 3      \* websocket connections that may ever be opened
NumUsers == 2      \* distinct user_id values
NumReq   == 1      \* POST /processed_agent_data/ requests in flight at a time
MaxBatch == 2      \* longest request body (number of elements)

Conn    == 1..NumConn
UserIds == 1..NumUsers
Req     == 1..NumReq
NoUser  == 0       \* user_id of a connection that has not been opened yet

NoNumber == 0 - 1  \* a numeric field that is absent from the JSON body

\* ---- the request body ----------------------------------------------------

\* A timestamp text is kept as its three parts <<date, separator, time>>.
\* The texts a client may submit: ISO-8601 with "T", ISO-8601 with a blank
\* as separator, and a text that is no date.
TsT       == <<"2024-01-01", "T", "00:00:00">>
TsBlank   == <<"2024-01-02", " ", "00:00:00">>
TsNotDate == <<"not-a-date", "", "">>
TsTexts   == {TsT, TsBlank, TsNotDate}

\* the texts that denote a calendar date and a time of day
DateTexts == {"2024-01-01", "2024-01-02"}
TimeTexts == {"00:00:00"}

\* datetime values: <<date, time>>
NoDatetime == << >>

\* The datetime a timestamp text is parsed to (field `timestamp: datetime`,
\* line 64, and datetime.fromisoformat, line 72): a date, one separator
\* character, a time.  NoDatetime when the text is rejected.
ParseTs(text) ==
  IF text[1] \in DateTexts /\ text[2] \in {"T", " "} /\ text[3] \in TimeTexts
    THEN <<text[1], text[3]>>
    ELSE NoDatetime

\* datetime.isoformat() (line 135): date, "T", time
IsoFormat(dt) == <<dt[1], "T", dt[2]>>

\* one element of the body (ProcessedAgentData, lines 49-81) for user u with
\* accelerometer.x = x and the timestamp text ts
Element(u, x, ts) ==
  [road_state |-> "Good",
   agent_data |-> [user_id |-> u,
                   accelerometer |-> [x |-> x, y |-> 2, z |-> 3],
                   gps |-> [latitude |-> 50, longitude |-> 30],
                   timestamp |-> ts]]

\* the timestamp text the agent of user u writes: the agent of user 1 the
\* "T" form, the others the blank form
TsOf(u) == IF u = 1 THEN TsT ELSE TsBlank

\* the elements clients submit: a well-formed one for every user_id, one
\* with an unparsable timestamp and one without accelerometer.x
Elements ==
  {Element(u, 1, TsOf(u)) : u \in UserIds}
    \cup {Element(1, 1, TsNotDate), Element(1, NoNumber, TsT)}

\* A request body: a list of at most MaxBatch elements.
Batches == UNION {[1..n -> Elements] : n \in 0..MaxBatch}

VARIABLES
  subscriptions,  \* Dict[int, Set[WebSocket]]: function, DOMAIN \subseteq UserIds
  ws_pc,          \* per connection: position of its websocket_endpoint task
  ws_uid,         \* per connection: the user_id path parameter
  req_pc,         \* per request: "idle" | "sending" | "blocked" | "returned"
  req_batch,      \* per request: processed_agent_data_list
  req_inserted,   \* per request: session.execute(query) succeeded
  req_result,     \* per request: "none", "ok" (HTTP 200), or the exception that
                  \*   left the handler (HTTP 500): "insert_error", "send_error",
                  \*   "runtime_error", "key_error", "index_error"; or
                  \*   "validation_error" (HTTP 422, the handler not entered)
  session,        \* per request: its transaction,
                  \*   "none" | "open" | "committed" | "rolledback"
  it_used,        \* per request: size of the set when the for-loop iterator was made
  it_passed,      \* per request: members of the set the iterator has gone past
  sent,           \* per request: number of send_json calls per connection
  had_entry,      \* per request: user_id was a key of subscriptions at the call
  snap,           \* per request: subscriptions[user_id] at the call
  rows,           \* per request: the rows its transaction has written
  wire            \* per request: the messages passed to send_json, per connection

reqVars == <<req_pc, req_batch, req_inserted, req_result, session, it_used,
             it_passed, sent, had_entry, snap, rows, wire>>
vars    == <<subscriptions, ws_pc, ws_uid, req_pc, req_batch, req_inserted,
             req_result, session, it_used, it_passed, sent, had_entry, snap,
             rows, wire>>

NoneSent == [c \in Conn |-> 0]
NoWire   == [c \in Conn |-> << >>]

Init ==
  /\ subscriptions = << >>
  /\ ws_pc = [c \in Conn |-> "idle"]
  /\ ws_uid = [c \in Conn |-> NoUser]
  /\ req_pc = [r \in Req |-> "idle"]
  /\ req_batch = [r \in Req |-> << >>]
  /\ req_inserted = [r \in Req |-> FALSE]
  /\ req_result = [r \in Req |-> "none"]
  /\ session = [r \in Req |-> "none"]
  /\ it_used = [r \in Req |-> 0]
  /\ it_passed = [r \in Req |-> {}]
  /\ sent = [r \in Req |-> NoneSent]
  /\ had_entry = [r \in Req |-> FALSE]
  /\ snap = [r \in Req |-> {}]
  /\ rows = [r \in Req |-> << >>]
  /\ wire = [r \in Req |-> NoWire]

\* ---- the registry ---------------------------------------------------------

\* line 92: `user_id not in subscriptions`
HasEntry(subs, u) == u \in DOMAIN subs

\* a registration that always starts a fresh set (the membership test of
\* line 92 dropped): earlier registrations of the identity are lost
RegisterOverwrite(subs, u, c) ==
  [v \in DOMAIN subs \cup {u} |-> IF v = u THEN {c} ELSE subs[v]]

\* lines 92-94: create the set when the key is missing, then add
Register(subs, u, c) ==
  LET s1 == IF HasEntry(subs, u) THEN subs ELSE subs @@ (u :> {})
  IN  [s1 EXCEPT ![u] = @ \cup {c}]

\* line 99: subscriptions[user_id].remove(websocket) raises KeyError when the
\* key or the member is missing
RemoveRaises(subs, u, c) == u \notin DOMAIN subs \/ c \notin subs[u]

\* an unregistration that leaves the connection in the set
UnregisterNoop(subs, u, c) == subs

\* line 99, when it does not raise
Unregister(subs, u, c) == [subs EXCEPT ![u] = @ \ {c}]

\* a dispatcher without the membership test of line 104
HasSubscribersAlways(subs, u) == TRUE

\* line 104: `if user_id in subscriptions`
HasSubscribers(subs, u) == u \in DOMAIN subs

\* line 105: the subscript subscriptions[user_id] raises KeyError on a missing key
GetRaises(subs, u) == u \notin DOMAIN subs

\* a dispatcher that walks the connections of every identity
IterSetAll(subs, u) == UNION {subs[v] : v \in DOMAIN subs}

\* line 105: the set the for-loop walks, the live object (no copy)
IterSet(subs, u) == subs[u]

\* a handler that takes the identity from the last element of the list
BroadcastIdLast(batch) == batch[Len(batch)].agent_data.user_id

\* line 132: user_id = processed_agent_data_list[0].agent_data.user_id
BroadcastId(batch) == batch[1].agent_data.user_id

\* requests suspended in a send while walking the set of u
Walking(u) ==
  {r \in Req : req_pc[r] = "sending" /\ BroadcastId(req_batch[r]) = u}

\* ---- websocket_endpoint ---------------------------------------------------

\* A client opens /ws/{u}; the handler awaits accept() (line 91), which
\* touches no shared state, and then either accept() raised and the handler
\* is over ("crashed", never registered), or lines 92-94 run up to the first
\* receive_text().  Connections are numbered in the order they get here.
\* A member added to a set that a for-loop is walking lands, by its hash, in
\* a slot before or after the position of each iterator.
websocket_endpoint(c, u, accepted) ==
  /\ ws_pc[c] = "idle"
  /\ \A d \in Conn : d < c => ws_pc[d] # "idle"
  /\ UNCHANGED <<req_pc, req_batch, req_inserted, req_result, session,
                 it_used, sent, had_entry, snap, rows, wire>>
  /\ IF accepted
       THEN /\ ws_pc' = [ws_pc EXCEPT ![c] = "receiving"]
            /\ ws_uid' = [ws_uid EXCEPT ![c] = u]
            /\ subscriptions' = Register(subscriptions, u, c)
            /\ \E P \in SUBSET Walking(u) :
                 it_passed' = [r \in Req |->
                    IF r \in P THEN it_passed[r] \cup {c} ELSE it_passed[r]]
       ELSE /\ ws_pc' = [ws_pc EXCEPT ![c] = "crashed"]
            /\ UNCHANGED <<ws_uid, subscriptions, it_passed>>

\* One turn of the loop of lines 96-97 and the handler of lines 98-99.
\*   "text":       receive_text() returns, the payload is dropped, loop again
\*   "disconnect": receive_text() raises WebSocketDisconnect, line 99 runs
\*   "error":      receive_text() raises anything else (a binary frame, a
\*                 cancelled task); no except clause matches
Events == {"text", "disconnect", "error"}

websocket_receive(c, ev) ==
  /\ ws_pc[c] = "receiving"
  /\ UNCHANGED ws_uid
  /\ UNCHANGED <<req_pc, req_batch, req_inserted, req_result, session,
                 it_used, sent, had_entry, snap, rows, wire>>
  /\ CASE ev = "text" ->
            UNCHANGED <<ws_pc, subscriptions, it_passed>>
       [] ev = "disconnect" /\ ~RemoveRaises(subscriptions, ws_uid[c], c) ->
            /\ ws_pc' = [ws_pc EXCEPT ![c] = "unregistered"]
            /\ subscriptions' = Unregister(subscriptions, ws_uid[c], c)
            /\ it_passed' = [r \in Req |-> it_passed[r] \ {c}]
       [] OTHER ->
            /\ ws_pc' = [ws_pc EXCEPT ![c] = "crashed"]
            /\ UNCHANGED <<subscriptions, it_passed>>

\* ---- create_processed_agent_data / send_data_to_subscribers ---------------

\* a body model whose numeric fields are optional: only the timestamp is checked
ValidElementTimestampOnly(el) == ParseTs(el.agent_data.timestamp) # NoDatetime

\* The request body is validated against List[ProcessedAgentData] before the
\* handler runs (lines 49-81, 112): every float field must be present and
\* the timestamp must parse.
ValidElement(el) ==
  /\ el.agent_data.accelerometer.x # NoNumber
  /\ el.agent_data.accelerometer.y # NoNumber
  /\ el.agent_data.accelerometer.z # NoNumber
  /\ el.agent_data.gps.latitude # NoNumber
  /\ el.agent_data.gps.longitude # NoNumber
  /\ ParseTs(el.agent_data.timestamp) # NoDatetime

ValidBody(batch) == \A i \in 1..Len(batch) : ValidElement(batch[i])

\* a handler without the early return of lines 113-114
IsEmptyListNever(batch) == FALSE

\* line 113: `not processed_agent_data_list`
IsEmptyList(batch) == batch = << >>

\* lines 115-127: flatten_data, the timestamp being the parsed datetime
Flatten(batch) ==
  [i \in 1..Len(batch) |->
     [road_state |-> batch[i].road_state,
      user_id    |-> batch[i].agent_data.user_id,
      x          |-> batch[i].agent_data.accelerometer.x,
      y          |-> batch[i].agent_data.accelerometer.y,
      z          |-> batch[i].agent_data.accelerometer.z,
      latitude   |-> batch[i].agent_data.gps.latitude,
      longitude  |-> batch[i].agent_data.gps.longitude,
      timestamp  |-> ParseTs(batch[i].agent_data.timestamp)]]

\* a handler that swallows the exception of session.execute and goes on
ExecuteSwallowed(inserted) == FALSE

\* line 130: session.execute(query) raises when the store fails
ExecuteRaises(inserted) == ~inserted

\* line 22: the primary key the store gives the i-th row of the insert of
\* the request in slot r
StoreId(r, i) == (r - 1) * MaxBatch + i

\* line 128-130: the rows the insert writes
StoreRows(r, flat) ==
  [i \in 1..Len(flat) |->
     [id         |-> StoreId(r, i),
      road_state |-> flat[i].road_state,
      user_id    |-> flat[i].user_id,
      x          |-> flat[i].x,
      y          |-> flat[i].y,
      z          |-> flat[i].z,
      latitude   |-> flat[i].latitude,
      longitude  |-> flat[i].longitude,
      timestamp  |-> flat[i].timestamp]]

\* line 132: processed_agent_data_list[0] raises IndexError on an empty list
IndexRaises(batch) == Len(batch) = 0

\* a comprehension that walks flatten_data backwards
IsoDataReversed(flat) ==
  [i \in 1..Len(flat) |->
     [flat[Len(flat) + 1 - i] EXCEPT !.timestamp = IsoFormat(@)]]

\* line 135: [{**d, "timestamp": d['timestamp'].isoformat()} for d in flatten_data]
IsoData(flat) ==
  [i \in 1..Len(flat) |-> [flat[i] EXCEPT !.timestamp = IsoFormat(@)]]

\* line 106: json.dumps(data), one text for the whole list
JsonDumps(data) == [json |-> data]

\* the reader's side of JsonDumps
JsonLoads(msg) == msg.json

\* the argument `data` of send_data_to_subscribers for a body
Data(batch) == IsoData(Flatten(batch))

\* The handler returns or an exception leaves it.  Leaving the with-block of
\* line 129 normally commits, leaving it by an exception rolls back; tr is
\* the state the transaction is left in.  sn and wr are the request's send
\* count and sent messages.
Return(r, res, tr, sn, wr) ==
  /\ req_pc' = [req_pc EXCEPT ![r] = "returned"]
  /\ req_result' = [req_result EXCEPT ![r] = res]
  /\ session' = [session EXCEPT ![r] = tr]
  /\ rows' = [rows EXCEPT ![r] = IF tr = "committed"
                                   THEN StoreRows(r, Flatten(req_batch'[r]))
                                   ELSE << >>]
  /\ it_passed' = [it_passed EXCEPT ![r] = {}]
  /\ sent' = [sent EXCEPT ![r] = sn]
  /\ wire' = [wire EXCEPT ![r] = wr]

\* line 106: send_json is called on c and the task is suspended in it, the
\* transaction of line 129 still open
Suspend(r, c, passed, sn, wr) ==
  /\ req_pc' = [req_pc EXCEPT ![r] = "sending"]
  /\ req_result' = [req_result EXCEPT ![r] = "none"]
  /\ session' = [session EXCEPT ![r] = "open"]
  /\ rows' = [rows EXCEPT ![r] = StoreRows(r, Flatten(req_batch'[r]))]
  /\ it_passed' = [it_passed EXCEPT ![r] = passed \cup {c}]
  /\ sent' = [sent EXCEPT ![r] = [sn EXCEPT ![c] = @ + 1]]
  /\ wire' = [wire EXCEPT ![r] =
                [wr EXCEPT ![c] = Append(@, JsonDumps(Data(req_batch'[r])))]]

\* One step of `for websocket in subscriptions[user_id]` (line 105): the set
\* iterator raises RuntimeError when the size of the set differs from the
\* size it had when the loop began, ends when no member lies ahead, and
\* otherwise yields a member that lies ahead (in hash order: any of them).
ForNext(r, u, used, passed, sn, wr) ==
  LET s == IterSet(subscriptions, u) IN
  IF Cardinality(s) # used
    THEN Return(r, "runtime_error", "rolledback", sn, wr)
    ELSE IF s \ passed = {}
           THEN Return(r, "ok", "committed", sn, wr)
           ELSE \E c \in s \ passed : Suspend(r, c, passed, sn, wr)

\* lines 103-106 from the call to the first suspension
send_data_to_subscribers(r, u) ==
  IF ~HasSubscribers(subscriptions, u)
    THEN /\ Return(r, "ok", "committed", NoneSent, NoWire)
         /\ it_used' = [it_used EXCEPT ![r] = 0]
    ELSE IF GetRaises(subscriptions, u)
           THEN /\ Return(r, "key_error", "rolledback", NoneSent, NoWire)
                /\ it_used' = [it_used EXCEPT ![r] = 0]
           ELSE /\ it_used' = [it_used EXCEPT
                                 ![r] = Cardinality(IterSet(subscriptions, u))]
                /\ ForNext(r, u, Cardinality(IterSet(subscriptions, u)), {},
                           NoneSent, NoWire)

\* what session.execute may do for a body: succeed or fail when it is
\* called, nothing to choose when the request ends before line 130
StoreOutcomes(batch) ==
  IF ValidBody(batch) /\ ~IsEmptyList(batch) THEN BOOLEAN ELSE {TRUE}

\* the request ends before send_data_to_subscribers is called
Refuse(r, res, tr) ==
  /\ Return(r, res, tr, NoneSent, NoWire)
  /\ req_inserted' = [req_inserted EXCEPT ![r] = FALSE]
  /\ it_used' = [it_used EXCEPT ![r] = 0]
  /\ had_entry' = [had_entry EXCEPT ![r] = FALSE]
  /\ snap' = [snap EXCEPT ![r] = {}]

\* POST /processed_agent_data/ (lines 111-136) up to its first suspension.
\* A request takes the lowest request slot that is free (never used, or its
\* request has returned).  A body that fails validation is answered 422
\* before the handler is entered.  inserted = FALSE is the store failing.
create_processed_agent_data(r, batch, inserted) ==
  /\ req_pc[r] \in {"idle", "returned"}
  /\ \A q \in Req : q < r => req_pc[q] \in {"sending", "blocked"}
  /\ req_batch' = [req_batch EXCEPT ![r] = batch]
  /\ UNCHANGED <<subscriptions, ws_pc, ws_uid>>
  /\ IF ~ValidBody(batch)
       THEN Refuse(r, "validation_error", "none")
       ELSE IF IsEmptyList(batch)
         THEN Refuse(r, "ok", "none")
         ELSE IF ExecuteRaises(inserted)
           THEN Refuse(r, "insert_error", "rolledback")
           ELSE IF IndexRaises(batch)
             THEN Refuse(r, "index_error", "rolledback")
             ELSE LET u == BroadcastId(batch) IN
                  /\ req_inserted' = [req_inserted EXCEPT ![r] = inserted]
                  /\ had_entry' = [had_entry EXCEPT
                                     ![r] = u \in DOMAIN subscriptions]
                  /\ snap' = [snap EXCEPT ![r] =
                                IF u \in DOMAIN subscriptions
                                  THEN subscriptions[u] ELSE {}]
                  /\ send_data_to_subscribers(r, u)

\* a dispatcher that drops the entry of the identity when a send fails
AfterSendDropEntry(subs, u, ok) ==
  IF ok THEN subs ELSE [v \in DOMAIN subs \ {u} |-> subs[v]]

\* line 106 and the exception that leaves it: neither the send nor its
\* failure touches the registry
AfterSend(subs, u, ok) == subs

\* The await of line 106 ends: send_json returned (ok = TRUE) or raised.
\* Nothing catches the exception, so it leaves both functions.
send_json_return(r, ok) ==
  /\ req_pc[r] = "sending"
  /\ subscriptions' = AfterSend(subscriptions, BroadcastId(req_batch[r]), ok)
  /\ UNCHANGED <<ws_pc, ws_uid>>
  /\ UNCHANGED <<req_batch, req_inserted, it_used, had_entry, snap>>
  /\ IF ok
       THEN ForNext(r, BroadcastId(req_batch[r]), it_used[r], it_passed[r],
                    sent[r], wire[r])
       ELSE Return(r, "send_error", "rolledback", sent[r], wire[r])

\* The await of line 106 never ends: the peer is slow or dead, its transport
\* buffer stays full, and send_json neither returns nor raises.
send_json_block(r) ==
  /\ req_pc[r] = "sending"
  /\ req_pc' = [req_pc EXCEPT ![r] = "blocked"]
  /\ it_passed' = [it_passed EXCEPT ![r] = {}]
  /\ UNCHANGED <<subscriptions, ws_pc, ws_uid>>
  /\ UNCHANGED <<req_batch, req_inserted, req_result, session, it_used, sent,
                 had_entry, snap, rows, wire>>

Next ==
  \/ \E c \in Conn, u \in UserIds, accepted \in BOOLEAN :
        websocket_endpoint(c, u, accepted)
  \/ \E c \in Conn, ev \in Events : websocket_receive(c, ev)
  \/ \E r \in Req, batch \in Batches :
        \E inserted \in StoreOutcomes(batch) :
           create_processed_agent_data(r, batch, inserted)
  \/ \E r \in Req, ok \in BOOLEAN : send_json_return(r, ok)
  \/ \E r \in Req : send_json_block(r)

Spec == Init /\ [][Next]_vars

\* The event loop resumes a task whose await has ended; what clients and
\* peers do is not scheduled by anyone.
FairSpec == Spec /\ \A r \in Req : WF_vars(\E ok \in BOOLEAN : send_json_return(r, ok))

TypeOK ==
  /\ DOMAIN subscriptions \subseteq UserIds
  /\ \A u \in DOMAIN subscriptions : subscriptions[u] \subseteq Conn
  /\ \A r \in Req : req_pc[r] \in {"idle", "sending", "blocked", "returned"}
  /\ \A r \in Req : session[r] \in {"none", "open", "committed", "rolledback"}

\* ---- properties -----------------------------------------------------------

\* the identity a request broadcasts for (defined once its insert succeeded)
Uid(r) == BroadcastId(req_batch[r])

\* send_data_to_subscribers was called for the request in slot r
Called(r) == req_inserted[r]

Returned(r) == req_pc[r] = "returned"

\* the step issues a send_json of request r to connection c
SendIssued(r, c) ==
  /\ req_pc'[r] = "sending"
  /\ sent'[r][c] >= 1
  /\ req_pc[r] # "sending" \/ sent'[r][c] > sent[r][c]

\* C1: a broadcast issued for identity B is sent only to connections that
\* registered under B; a connection registered under A # B is never sent it.
C1_OnlyOwnIdentity ==
  \A r \in Req, c \in Conn :
     sent[r][c] > 0 => /\ Called(r)
                       /\ ws_uid[c] = Uid(r)

\* a broadcast delivered to its subscriber while a connection of another
\* identity sits in the registry
C1_Witness ==
  \E r \in Req, c \in Conn, d \in Conn :
     /\ Returned(r) /\ Called(r) /\ req_result[r] = "ok"
     /\ sent[r][c] = 1
     /\ ws_uid[d] \in DOMAIN subscriptions
     /\ ws_uid[d] # Uid(r)
     /\ d \in subscriptions[ws_uid[d]]
     /\ sent[r][d] = 0

\* C2 (as claimed): when a send of a broadcast fails, delivery is still
\* attempted to every other connection that was registered for the identity
\* when the broadcast started.
C2_FailureContained ==
  \A r \in Req :
     (Returned(r) /\ req_result[r] = "send_error")
        => \A c \in snap[r] : sent[r][c] >= 1

\* C3 (as claimed): once the insert of a batch has succeeded, the request
\* ends with the batch committed and a success result, whatever the sends do.
C3_IngestionUnaffected ==
  \A r \in Req :
     (Returned(r) /\ req_inserted[r])
        => /\ session[r] = "committed"
           /\ req_result[r] = "ok"

\* C4 (as claimed): no subscriber send of a batch occurs while the batch's
\* store transaction is still open.
C4_SendAfterCommit ==
  \A r \in Req, c \in Conn :
     sent[r][c] > 0 => session[r] = "committed"

\* C5 (as claimed): a broadcast in which no send fails attempts delivery to
\* exactly the connections registered when it was called: none that registered
\* later is sent the batch, and every one captured at the call and still
\* registered is.
C5_SnapshotDelivery ==
  \A r \in Req :
     (Returned(r) /\ Called(r) /\ req_result[r] # "send_error")
        => /\ \A c \in Conn : sent[r][c] > 0 => c \in snap[r]
           /\ had_entry[r] =>
                \A c \in snap[r] \cap subscriptions[Uid(r)] : sent[r][c] >= 1

\* C6: no send is ever issued to a connection whose unregistration (line 99)
\* has completed; in particular no broadcast that starts afterwards sends to it.
C6_NoSendAfterUnregister ==
  [][\A r \in Req, c \in Conn :
        SendIssued(r, c) => ws_pc[c] # "unregistered"]_vars

\* c registered before d and had unregistered before the broadcast began
\* (d was in the set at the call, c no longer); the broadcast reached d only
C6_Witness ==
  \E r \in Req, c \in Conn, d \in Conn :
     /\ Returned(r) /\ Called(r) /\ req_result[r] = "ok"
     /\ c < d
     /\ ws_pc[c] = "unregistered"
     /\ ws_uid[c] = Uid(r) /\ ws_uid[d] = Uid(r)
     /\ c \notin snap[r] /\ d \in snap[r]
     /\ sent[r][d] = 1 /\ sent[r][c] = 0

\* the connections that registered under u
RegisteredUnder(u) == {c \in Conn : ws_uid[c] = u}

\* every connection that ever registered under the identity of request r did
\* so before the broadcast began, and none has disconnected or failed
Quiet(r) ==
  /\ RegisteredUnder(Uid(r)) = snap[r]
  /\ \A c \in snap[r] : ws_pc[c] = "receiving"

\* C7: no registration is lost (a connection whose handler sits in its
\* receive loop is in the set of its identity), and a broadcast that follows
\* the registration of N connections under one identity, none of which
\* disconnects or fails, sends to each of the N exactly once and to no other.
C7_EachExactlyOnce ==
  /\ \A c \in Conn :
        ws_pc[c] = "receiving" =>
           /\ ws_uid[c] \in DOMAIN subscriptions
           /\ c \in subscriptions[ws_uid[c]]
  /\ \A r \in Req :
        (Returned(r) /\ Called(r) /\ req_result[r] = "ok" /\ Quiet(r))
           => \A c \in Conn :
                 sent[r][c] = IF c \in RegisteredUnder(Uid(r)) THEN 1 ELSE 0

\* every connection of the model registered under one identity, then a
\* broadcast for it completed
C7_Witness ==
  \E r \in Req :
     /\ Returned(r) /\ Called(r) /\ req_result[r] = "ok" /\ Quiet(r)
     /\ snap[r] = Conn
     /\ \A c \in Conn : sent[r][c] = 1

\* C8 (as claimed): a request whose broadcast is under way eventually returns
\* with its transaction committed or rolled back, also when a send blocks.
C8_IngestionCompletes ==
  \A r \in Req : (session[r] = "open") ~> (session[r] # "open" /\ Returned(r))

\* C9 (as claimed): a connection whose handler has finished is not in the
\* registry.
C9_UnregisteredOnExit ==
  \A c \in Conn :
     (ws_pc[c] \in {"unregistered", "crashed"} /\ ws_uid[c] # NoUser)
        => c \notin subscriptions[ws_uid[c]]

\* C10: a broadcast for an identity without registered connections, its key
\* absent or its set empty, sends nothing and completes without error.
C10_NoSubscribersNoOp ==
  \A r \in Req :
     (Called(r) /\ snap[r] = {})
        => /\ Returned(r)
           /\ req_result[r] = "ok"
           /\ session[r] = "committed"
           /\ sent[r] = NoneSent

\* the entry of the identity exists and is empty: its only connections have
\* unregistered before the broadcast
C10_Witness ==
  \E r \in Req, c \in Conn :
     /\ Called(r) /\ Returned(r)
     /\ had_entry[r] /\ snap[r] = {}
     /\ ws_uid[c] = Uid(r) /\ ws_pc[c] = "unregistered"
     /\ subscriptions[Uid(r)] = {}

\* C11: ingesting an empty list is accepted and has no effect: no
\* transaction is opened and no insert executed, nothing is sent, and the
\* registry and the rows of every request are left as they were.
C11_EmptyListNoEffect ==
  [][\A r \in Req :
        create_processed_agent_data(r, << >>, TRUE)
           => /\ req_result'[r] = "ok"
              /\ session'[r] = "none"
              /\ ~req_inserted'[r]
              /\ rows'[r] = << >>
              /\ sent'[r] = NoneSent
              /\ wire'[r] = NoWire
              /\ subscriptions' = subscriptions
              /\ \A q \in Req \ {r} : rows'[q] = rows[q] /\ session'[q] = session[q]]_vars

\* an empty list was ingested while a connection was subscribed
C11_Witness ==
  \E r \in Req, c \in Conn :
     /\ Returned(r) /\ req_batch[r] = << >> /\ req_result[r] = "ok"
     /\ ws_pc[c] = "receiving"
     /\ c \in subscriptions[ws_uid[c]]

\* a submission whose timestamp is no date, or that lacks a numeric field
Malformed(el) ==
  \/ el.agent_data.timestamp = TsNotDate
  \/ NoNumber \in {el.agent_data.accelerometer.x, el.agent_data.accelerometer.y,
                   el.agent_data.accelerometer.z, el.agent_data.gps.latitude,
                   el.agent_data.gps.longitude}

\* C12: a batch that contains a submission with an unparsable timestamp or a
\* missing numeric field is rejected as a whole before any side effect: no
\* insert is executed for any element and nothing is sent.
C12_MalformedRejected ==
  \A r \in Req :
     (req_pc[r] # "idle" /\ \E i \in 1..Len(req_batch[r]) : Malformed(req_batch[r][i]))
        => /\ Returned(r)
           /\ req_result[r] = "validation_error"
           /\ session[r] = "none"
           /\ rows[r] = << >>
           /\ sent[r] = NoneSent
           /\ wire[r] = NoWire

\* a well-formed submission followed by a malformed one was rejected while a
\* connection was subscribed to the identity of the first
C12_Witness ==
  \E r \in Req, c \in Conn :
     /\ Returned(r) /\ req_result[r] = "validation_error"
     /\ Len(req_batch[r]) = 2
     /\ ~Malformed(req_batch[r][1]) /\ Malformed(req_batch[r][2])
     /\ ws_pc[c] = "receiving"
     /\ ws_uid[c] = req_batch[r][1].agent_data.user_id

\* C13 (as claimed): every message passed to a subscriber holds the records
\* as stored: each with the id the store assigned and the submitted
\* road_state, user_id, x, y, z, latitude and longitude, and the timestamp as
\* ISO-8601 text.
C13_MessageAsStored ==
  \A r \in Req, c \in Conn :
     \A k \in 1..Len(wire[r][c]) :
        LET recs == JsonLoads(wire[r][c][k]) IN
        session[r] \in {"open", "committed"} =>
          /\ Len(recs) = Len(rows[r])
          /\ \A i \in 1..Len(recs) :
                /\ recs[i].road_state = req_batch[r][i].road_state
                /\ recs[i].user_id = req_batch[r][i].agent_data.user_id
                /\ recs[i].x = req_batch[r][i].agent_data.accelerometer.x
                /\ recs[i].y = req_batch[r][i].agent_data.accelerometer.y
                /\ recs[i].z = req_batch[r][i].agent_data.accelerometer.z
                /\ recs[i].latitude = req_batch[r][i].agent_data.gps.latitude
                /\ recs[i].longitude = req_batch[r][i].agent_data.gps.longitude
                /\ recs[i].timestamp = IsoFormat(rows[r][i].timestamp)
                /\ "id" \in DOMAIN recs[i]
                /\ recs[i].id = rows[r][i].id

\* C14 (as claimed): a broadcast suspended in a send while a Register or an
\* Unregister of the same identity runs raises no error.
C14_MutationTolerated ==
  \A r \in Req : req_result[r] # "runtime_error"

\* C15 (as claimed): a connection is a member of the set of at most one
\* identity, and every member of a set is an open connection, its handler
\* in the receive loop.
C15_MembersOpenAndUnique ==
  \A c \in Conn :
     /\ Cardinality({u \in DOMAIN subscriptions : c \in subscriptions[u]}) <= 1
     /\ \A u \in DOMAIN subscriptions :
           c \in subscriptions[u] => ws_pc[c] = "receiving"

\* ---- line 99 as an operation on any registry ------------------------------

\* the registries the program can build: every identity without an entry or
\* with a set of connections, no connection in two sets
Registries ==
  {reg \in UNION {[D -> SUBSET Conn] : D \in SUBSET UserIds} :
     \A u \in DOMAIN reg, v \in DOMAIN reg : u # v => reg[u] \cap reg[v] = {}}

\* Any registry, and for every connection a handler in its receive loop; the
\* handler of a member runs under the identity of its set, the handler of a
\* connection that is in no set under any identity.
UnregInit ==
  /\ subscriptions \in Registries
  /\ ws_pc = [c \in Conn |-> "receiving"]
  /\ ws_uid \in [Conn -> UserIds]
  /\ \A c \in Conn, u \in DOMAIN subscriptions :
        c \in subscriptions[u] => ws_uid[c] = u
  /\ req_pc = [r \in Req |-> "idle"]
  /\ req_batch = [r \in Req |-> << >>]
  /\ req_inserted = [r \in Req |-> FALSE]
  /\ req_result = [r \in Req |-> "none"]
  /\ session = [r \in Req |-> "none"]
  /\ it_used = [r \in Req |-> 0]
  /\ it_passed = [r \in Req |-> {}]
  /\ sent = [r \in Req |-> NoneSent]
  /\ had_entry = [r \in Req |-> FALSE]
  /\ snap = [r \in Req |-> {}]
  /\ rows = [r \in Req |-> << >>]
  /\ wire = [r \in Req |-> NoWire]

\* the except clause of lines 98-99 runs for some connection
UnregNext == \E c \in Conn : websocket_receive(c, "disconnect")

UnregSpec == UnregInit /\ [][UnregNext]_vars

RequestStep(r) ==
  <<req_pc[r], req_batch[r], req_inserted[r], req_result[r], session[r], sent[r]>>'
     # <<req_pc[r], req_batch[r], req_inserted[r], req_result[r], session[r], sent[r]>>

\* C17: no step of a request (its insert, its sends, a send that returns,
\* fails or blocks) changes the registry.
C17_BroadcastKeepsRegistry ==
  [][\A r \in Req : RequestStep(r) => subscriptions' = subscriptions]_vars

\* a send failed and the connections registered at the call are all still
\* in the set
C17_Witness ==
  \E r \in Req, c \in Conn :
     /\ Returned(r) /\ req_result[r] = "send_error"
     /\ sent[r][c] = 1
     /\ Uid(r) \in DOMAIN subscriptions
     /\ c \in subscriptions[Uid(r)]
     /\ subscriptions[Uid(r)] = snap[r]

\* C18: a connection is passed at most one message per batch, as many as
\* send_json calls were made on it, and every message holds one record per
\* submitted element, the i-th record being the i-th element and, while the
\* rows exist, the i-th stored row.
C18_OneMessageInOrder ==
  \A r \in Req, c \in Conn :
     /\ Len(wire[r][c]) = sent[r][c]
     /\ Len(wire[r][c]) <= 1
     /\ \A k \in 1..Len(wire[r][c]) :
          LET recs == JsonLoads(wire[r][c][k]) IN
          /\ Len(recs) = Len(req_batch[r])
          /\ \A i \in 1..Len(recs) :
                /\ recs[i].user_id = req_batch[r][i].agent_data.user_id
                /\ recs[i].timestamp =
                      IsoFormat(ParseTs(req_batch[r][i].agent_data.timestamp))
          /\ session[r] \in {"open", "committed"} =>
                /\ Len(rows[r]) = Len(recs)
                /\ \A i \in 1..Len(recs) :
                      /\ rows[r][i].user_id = recs[i].user_id
                      /\ IsoFormat(rows[r][i].timestamp) = recs[i].timestamp

\* a batch of two different records was delivered in one message
C18_Witness ==
  \E r \in Req, c \in Conn :
     /\ Returned(r) /\ req_result[r] = "ok"
     /\ Len(req_batch[r]) = 2
     /\ req_batch[r][1] # req_batch[r][2]
     /\ Len(wire[r][c]) = 1
     /\ Len(JsonLoads(wire[r][c][1])) = 2

\* C19: the batch goes to the subscribers of the user_id of its first
\* element only, whole: every connection that is sent it registered under
\* that user_id, and the message holds the records of all elements, those
\* of other identities included.
C19_FirstElementIdentity ==
  \A r \in Req, c \in Conn :
     sent[r][c] > 0 =>
        /\ ws_uid[c] = req_batch[r][1].agent_data.user_id
        /\ \A k \in 1..Len(wire[r][c]) :
              [i \in 1..Len(JsonLoads(wire[r][c][k])) |->
                    JsonLoads(wire[r][c][k])[i].user_id]
                 = [i \in 1..Len(req_batch[r]) |->
                       req_batch[r][i].agent_data.user_id]

\* a batch of two identities was delivered to a subscriber of the first
\* while a subscriber of the second was registered and was sent nothing
C19_Witness ==
  \E r \in Req, c \in Conn, d \in Conn :
     /\ Returned(r) /\ req_result[r] = "ok"
     /\ Len(req_batch[r]) = 2
     /\ req_batch[r][1].agent_data.user_id # req_batch[r][2].agent_data.user_id
     /\ sent[r][c] = 1
     /\ ws_pc[d] = "receiving"
     /\ ws_uid[d] = req_batch[r][2].agent_data.user_id
     /\ d \in subscriptions[ws_uid[d]]
     /\ sent[r][d] = 0

\* the body of the request in slot r reached session.execute
Executed(r) ==
  /\ req_pc[r] # "idle"
  /\ req_batch[r] # << >>
  /\ \A i \in 1..Len(req_batch[r]) : ~Malformed(req_batch[r][i])

\* C20: when the insert of a batch fails, the caller is told, nothing is
\* sent to any subscriber and no row of the batch is committed.
C20_InsertFailureReported ==
  \A r \in Req :
     (Executed(r) /\ ~req_inserted[r])
        => /\ Returned(r)
           /\ req_result[r] = "insert_error"
           /\ session[r] = "rolledback"
           /\ rows[r] = << >>
           /\ sent[r] = NoneSent
           /\ wire[r] = NoWire

\* the insert of a batch failed while a connection was subscribed to its
\* identity
C20_Witness ==
  \E r \in Req, c \in Conn :
     /\ Returned(r) /\ req_result[r] = "insert_error"
     /\ ws_pc[c] = "receiving"
     /\ ws_uid[c] = req_batch[r][1].agent_data.user_id
     /\ c \in subscriptions[ws_uid[c]]
====
